---- MODULE Spec2Model ----
(***************************************************************************)
(* esh - embedded shell (esh.c).  One struct esh driven one byte at a time *)
(* by esh_rx: escape filter, line editor (handle_char) and the in-place    *)
(* tokenizer (make_arg_array) with its dispatch (execute_command).         *)
(*                                                                         *)
(* Bytes are integers (ASCII codes).  buffer is the char array of          *)
(* ESH_BUFFER_LEN + 1 bytes, held as a sequence: C index i is element      *)
(* i + 1.  An argv slot holds the C index into buffer it points at.        *)
(* log is the list of effects of the most recent esh_rx call, in the order *)
(* the code performs them (prints, handler calls, argv stores); last is    *)
(* the branch of esh_rx that call took and pcnt the value of cnt it found. *)
(***************************************************************************)
EXTENDS Integers, Sequences, FiniteSets

VARIABLES buffer, cnt, flags, argv, log, last, pcnt

vars == <<buffer, cnt, flags, argv, log, last, pcnt>>

\* ---------------------------------------------------------------- sizes
ESH_BUFFER_LEN == 5
ESH_ARGC_MAX == 2

\* ---------------------------------------------------------------- bytes
NUL == 0
BKSP == 8
NEWLINE == 10
ESC == 27
SPACE == 32
DQUOTE == 34
SQUOTE == 39
CH_O == 79
LBRACKET == 91
DEL == 127

\* The bytes the terminal sends: keys (a letter, space, both backspaces,
\* newline, NUL) and ESC, and '[' as the second byte of a sequence.
KeyBytes == {NUL, BKSP, NEWLINE, ESC, SPACE, CH_O, DEL}
SeqBytes == KeyBytes \cup {LBRACKET}

\* The bytes a line handed to the tokenizer is made of.
TokBytes == {SPACE, DQUOTE, SQUOTE, CH_O}

Bytes == SeqBytes \cup TokBytes

\* <ctype.h>, "C" locale.
isalpha(c) == (c >= 65 /\ c <= 90) \/ (c >= 97 /\ c <= 122)
isspace(c) == c = 32 \/ (c >= 9 /\ c <= 13)

\* enum esh_flags, and the three bit operations esh_rx applies to flags.
IN_ESCAPE == 1
IN_BRACKET_ESCAPE == 2
HasFlag(f, bit) == (f \div bit) % 2 = 1
SetFlag(f, bit) == IF HasFlag(f, bit) THEN f ELSE f + bit
ClearFlag(f, bit) == IF HasFlag(f, bit) THEN f - bit ELSE f

\* An argv slot that was never stored (memset 0), and one whose bytes were
\* overwritten by a store past the end of buffer.
NULLP == -1
WILDP == -2
\* ESH_PROMPT, and the text internal_overflow prints.
ESH_PROMPT == <<37, 32>>
OVERFLOW_MSG ==
  <<10, 10, 101, 115, 104, 58, 32, 99, 111, 109, 109, 97, 110, 100, 32,
    98, 117, 102, 102, 101, 114, 32, 111, 118, 101, 114, 102, 108, 111, 119, 10>>

\* ---------------------------------------------------------------- effects
\* One effect of a call: t is its kind, s its bytes, n a number, a strings.
Ev(t, s, n, a) == [t |-> t, s |-> s, n |-> n, a |-> a]

\* esh->print(esh, str) called from the place `tag`.
esh_print(tag, str) == Ev(tag, str, 0, <<>>)

\* esh_putc: one print call with the one-byte string {c, 0}.
esh_putc(tag, c) == <<esh_print(tag, <<c>>)>>

\* esh_puts_F: esh_putc for every byte of s up to its NUL.
esh_puts_F(tag, s) == [k \in 1..Len(s) |-> esh_print(tag, <<s[k]>>)]

print_prompt == esh_puts_F("prompt", ESH_PROMPT)

\* esh->overflow(esh, buf) with the default handler: the call, then the
\* handler's message.
internal_overflow(buf) ==
  <<Ev("overflow", buf, 0, <<>>)>> \o esh_puts_F("msg", OVERFLOW_MSG)

\* The NUL-terminated string at C index p of buf.
RECURSIVE CStr(_, _)
CStr(buf, p) ==
  IF p < 0 \/ p >= Len(buf) THEN <<>>
  ELSE IF buf[p + 1] = NUL THEN <<>>
  ELSE <<buf[p + 1]>> \o CStr(buf, p + 1)

\* What a callback reads through argv[k].
ArgStr(buf, av, k) ==
  IF k + 1 \in DOMAIN av /\ av[k + 1] >= 0 THEN CStr(buf, av[k + 1])
  ELSE <<av[k + 1]>>

\* esh->callback(argc, esh->argv).
callback(buf, av, argc) ==
  <<Ev("callback", av, argc, [k \in 1..argc |-> ArgStr(buf, av, k - 1)])>>

\* ---------------------------------------------------------------- tokenizer
\* esh->buffer[idx] = v; a store past the array is an effect, not a change
\* of buffer.
StoreBuf(s, idx, v) ==
  IF idx < Len(s.buffer)
  THEN [s EXCEPT !.buffer[idx + 1] = v]
  ELSE [s EXCEPT !.ev = @ \o <<Ev("oob", <<v>>, idx, <<>>)>>]

\* esh->argv[k] = &esh->buffer[p].
StoreArgv(s, k, p) ==
  [s EXCEPT !.argv = IF k + 1 \in DOMAIN @ THEN [@ EXCEPT ![k + 1] = p] ELSE @,
            !.ev = @ \o <<Ev("argv", <<p>>, k, <<>>)>>]

\* esh.c 186-189: the locals of make_arg_array before the loop.
TokInit(buf, av) ==
  [buffer |-> buf, argv |-> av, argc |-> 0, last_was_space |-> TRUE,
   dest |-> 0, quote |-> 0, ev |-> <<>>]

\* StartToken counting only the tokens it stores.
StartToken_capped(s, i) ==
  IF s.last_was_space /\ s.argc < ESH_ARGC_MAX
  THEN [StoreArgv(s, s.argc, i) EXCEPT !.argc = @ + 1]
  ELSE s

\* esh.c 206-211: a token starts at source index i.
StartToken(s, i) ==
  IF s.last_was_space
  THEN LET s1 == IF s.argc < ESH_ARGC_MAX THEN StoreArgv(s, s.argc, i) ELSE s
       IN  [s1 EXCEPT !.argc = @ + 1]
  ELSE s

\* InQuote copying the closing quote through.
InQuote_copy(s, i) ==
  LET c == s.buffer[i + 1]
      s1 == [StoreBuf(s, s.dest, c) EXCEPT !.dest = @ + 1]
      s2 == IF c = s.quote THEN [s1 EXCEPT !.quote = 0] ELSE s1
  IN  [s2 EXCEPT !.last_was_space = FALSE]

\* esh.c 192-199: inside quotes.
InQuote(s, i) ==
  LET c == s.buffer[i + 1]
      s1 == IF c = s.quote
            THEN [s EXCEPT !.quote = 0]
            ELSE [StoreBuf(s, s.dest, c) EXCEPT !.dest = @ + 1]
  IN  [s1 EXCEPT !.last_was_space = FALSE]

\* OutQuote writing one NUL for a run of whitespace.
OutQuote_squeeze(s, i) ==
  LET c == s.buffer[i + 1] IN
  IF isspace(c)
  THEN IF s.last_was_space THEN s
       ELSE [StoreBuf(s, s.dest, NUL) EXCEPT !.last_was_space = TRUE, !.dest = @ + 1]
  ELSE LET s1 == StartToken(s, i)
           s2 == IF c = SQUOTE \/ c = DQUOTE
                 THEN [s1 EXCEPT !.quote = c]
                 ELSE [StoreBuf(s1, s1.dest, c) EXCEPT !.dest = @ + 1]
       IN  [s2 EXCEPT !.last_was_space = FALSE]

\* esh.c 200-219: outside quotes.
OutQuote(s, i) ==
  LET c == s.buffer[i + 1] IN
  IF isspace(c)
  THEN [StoreBuf(s, s.dest, NUL) EXCEPT !.last_was_space = TRUE, !.dest = @ + 1]
  ELSE LET s1 == StartToken(s, i)
           s2 == IF c = SQUOTE \/ c = DQUOTE
                 THEN [s1 EXCEPT !.quote = c]
                 ELSE [StoreBuf(s1, s1.dest, c) EXCEPT !.dest = @ + 1]
       IN  [s2 EXCEPT !.last_was_space = FALSE]

\* The body of the for loop for source index i.
TokStep(s, i) == IF s.quote # 0 THEN InQuote(s, i) ELSE OutQuote(s, i)

RECURSIVE TokLoop(_, _, _)
TokLoop(s, i, n) == IF i < n THEN TokLoop(TokStep(s, i), i + 1, n) ELSE s

\* esh.c 222-223: the two terminators after the loop.  buffer has
\* ESH_BUFFER_LEN + 1 bytes, so buffer[ESH_BUFFER_LEN] is its last byte.
TokFinish(s) == StoreBuf(StoreBuf(s, s.dest, NUL), Len(s.buffer) - 1, NUL)

\* make_arg_array on (buffer, cnt, argv): the rewritten buffer, argv, argc
\* and the stores it made.
make_arg_array(buf, n, av) == TokFinish(TokLoop(TokInit(buf, av), 0, n))

\* A store of one byte past buffer lands in the bytes that follow it in
\* struct esh: padding (no effect) or the first argv slot.
Clobbers(s) ==
  IF \E k \in 1..Len(s.ev) : s.ev[k].t = "oob" THEN {FALSE, TRUE} ELSE {FALSE}
Clobbered(s, w) == IF w THEN [s EXCEPT !.argv[1] = WILDP] ELSE s

\* Dispatch reporting argc == ESH_ARGC_MAX as an overflow.
Dispatch_ge(s) ==
  IF s.argc >= ESH_ARGC_MAX THEN internal_overflow(s.buffer)
  ELSE IF s.argc > 0 THEN callback(s.buffer, s.argv, s.argc)
  ELSE <<>>

\* esh.c 110-114: the dispatch on argc.
Dispatch(s) ==
  IF s.argc > ESH_ARGC_MAX THEN internal_overflow(s.buffer)
  ELSE IF s.argc > 0 THEN callback(s.buffer, s.argv, s.argc)
  ELSE <<>>

\* execute_command returning early on an empty line.
execute_command_early(buf, n, av, w) ==
  LET s == Clobbered(make_arg_array(buf, n, av), w) IN
  IF s.argc = 0
  THEN [buffer |-> s.buffer, argv |-> s.argv, cnt |-> n,
        ev |-> s.ev \o <<Ev("make_arg_array", s.buffer, s.argc, <<>>)>>]
  ELSE [buffer |-> s.buffer, argv |-> s.argv, cnt |-> 0,
        ev |-> s.ev \o <<Ev("make_arg_array", s.buffer, s.argc, <<>>)>>
               \o Dispatch(s) \o print_prompt]

\* execute_command: tokenize, dispatch, reset cnt, prompt.
execute_command(buf, n, av, w) ==
  LET s == Clobbered(make_arg_array(buf, n, av), w) IN
  [buffer |-> s.buffer, argv |-> s.argv, cnt |-> 0,
   ev |-> s.ev \o <<Ev("make_arg_array", s.buffer, s.argc, <<>>)>>
          \o Dispatch(s) \o print_prompt]

\* ---------------------------------------------------------------- editor
is_bksp(c) == c = 8 \/ c = 127

\* IsOverflow taking the byte at cnt == ESH_BUFFER_LEN.
IsOverflow_late(n, c) == n > ESH_BUFFER_LEN

\* IsOverflow letting backspace through in the overflow state.
IsOverflow_bksp(n, c) == n >= ESH_BUFFER_LEN /\ ~is_bksp(c)

\* IsOverflow without the backspace exception at cnt == ESH_BUFFER_LEN.
IsOverflow_full(n, c) == n >= ESH_BUFFER_LEN

\* IsOverflow without the test for a line that already overflowed.
IsOverflow_once(n, c) == n = ESH_BUFFER_LEN /\ ~is_bksp(c)

\* esh.c 129: the line is full and c cannot be taken.
IsOverflow(n, c) ==
  n > ESH_BUFFER_LEN \/ (n = ESH_BUFFER_LEN /\ ~is_bksp(c))

\* StoreChar incrementing cnt before the store.
StoreChar_preinc(buf, n, c) == [buf EXCEPT ![n + 2] = c]

\* esh.c 143: esh->buffer[esh->cnt] = c.
StoreChar(buf, n, c) == [buf EXCEPT ![n + 1] = c]

\* handle_char on (buffer, cnt) with byte c.
handle_char(buf, n, c) ==
  IF IsOverflow(n, c)
  THEN LET b1 == [buf EXCEPT ![ESH_BUFFER_LEN + 1] = NUL] IN
       [buffer |-> b1, cnt |-> ESH_BUFFER_LEN + 1, ev |-> internal_overflow(b1)]
  ELSE IF is_bksp(c)
  THEN IF n # 0
       THEN [buffer |-> buf, cnt |-> n - 1, ev |-> <<esh_print("erase", <<8, 32, 8>>)>>]
       ELSE [buffer |-> buf, cnt |-> n, ev |-> <<>>]
  ELSE [buffer |-> StoreChar(buf, n, c), cnt |-> n + 1,
        ev |-> esh_putc("echo", c)]

\* ---------------------------------------------------------------- esh_rx
\* esh_init, then esh_register_callback and esh_register_print.
Init ==
  /\ buffer = [k \in 1..(ESH_BUFFER_LEN + 1) |-> NUL]
  /\ argv = [k \in 1..ESH_ARGC_MAX |-> NULLP]
  /\ cnt = 0
  /\ flags = 0
  /\ last = "esh_init"
  /\ pcnt = 0
  /\ log = <<>>

\* BracketEscapeFlags clearing only IN_BRACKET_ESCAPE.
BracketEscapeFlags_half(f, c) ==
  IF isalpha(c) THEN ClearFlag(f, IN_BRACKET_ESCAPE) ELSE f

\* esh.c 77-80: inside ESC [ ... or ESC O ...
BracketEscapeFlags(f, c) ==
  IF isalpha(c) THEN ClearFlag(ClearFlag(f, IN_ESCAPE), IN_BRACKET_ESCAPE) ELSE f

\* EscapeFlags replacing IN_ESCAPE by IN_BRACKET_ESCAPE on '[' or 'O'.
EscapeFlags_swap(f, c) ==
  IF c = LBRACKET \/ c = CH_O
  THEN SetFlag(ClearFlag(f, IN_ESCAPE), IN_BRACKET_ESCAPE)
  ELSE ClearFlag(f, IN_ESCAPE)

\* esh.c 81-86: the byte after ESC.
EscapeFlags(f, c) ==
  IF c = LBRACKET \/ c = CH_O THEN SetFlag(f, IN_BRACKET_ESCAPE)
  ELSE ClearFlag(f, IN_ESCAPE)

RxBracketEscape(c) ==
  /\ HasFlag(flags, IN_BRACKET_ESCAPE)
  /\ flags' = BracketEscapeFlags(flags, c)
  /\ last' = "RxBracketEscape" /\ pcnt' = cnt
  /\ log' = <<>>
  /\ UNCHANGED <<buffer, cnt, argv>>

\* RxEscape passing the byte that ends a two-byte sequence on to
\* handle_char.
RxEscape_fallthrough(c) ==
  /\ ~HasFlag(flags, IN_BRACKET_ESCAPE)
  /\ HasFlag(flags, IN_ESCAPE)
  /\ flags' = EscapeFlags(flags, c)
  /\ last' = "RxEscape" /\ pcnt' = cnt
  /\ IF c \in {LBRACKET, CH_O, NUL, ESC, NEWLINE}
     THEN log' = <<>> /\ UNCHANGED <<buffer, cnt, argv>>
     ELSE LET r == handle_char(buffer, cnt, c) IN
          /\ buffer' = r.buffer
          /\ cnt' = r.cnt
          /\ log' = r.ev
          /\ UNCHANGED argv

RxEscape(c) ==
  /\ ~HasFlag(flags, IN_BRACKET_ESCAPE)
  /\ HasFlag(flags, IN_ESCAPE)
  /\ flags' = EscapeFlags(flags, c)
  /\ last' = "RxEscape" /\ pcnt' = cnt
  /\ log' = <<>>
  /\ UNCHANGED <<buffer, cnt, argv>>

\* Neither flag set: the switch of esh_rx is reached.
Plain == ~HasFlag(flags, IN_BRACKET_ESCAPE) /\ ~HasFlag(flags, IN_ESCAPE)

RxNul(c) ==
  /\ Plain
  /\ c = 0
  /\ last' = "RxNul" /\ pcnt' = cnt
  /\ log' = <<>>
  /\ UNCHANGED <<buffer, cnt, flags, argv>>

RxEsc(c) ==
  /\ Plain
  /\ c = ESC
  /\ flags' = SetFlag(flags, IN_ESCAPE)
  /\ last' = "RxEsc" /\ pcnt' = cnt
  /\ log' = <<>>
  /\ UNCHANGED <<buffer, cnt, argv>>

RxNewline(c) ==
  /\ Plain
  /\ c = NEWLINE
  /\ last' = "RxNewline" /\ pcnt' = cnt
  /\ UNCHANGED flags
  /\ \E w \in Clobbers(make_arg_array(buffer, cnt, argv)) :
       LET r == execute_command(buffer, cnt, argv, w) IN
       /\ buffer' = r.buffer
       /\ argv' = r.argv
       /\ cnt' = r.cnt
       /\ log' = esh_putc("echo", c) \o r.ev

RxChar(c) ==
  /\ Plain
  /\ c \notin {0, ESC, NEWLINE}
  /\ last' = "RxChar" /\ pcnt' = cnt
  /\ UNCHANGED <<flags, argv>>
  /\ LET r == handle_char(buffer, cnt, c) IN
       /\ buffer' = r.buffer
       /\ cnt' = r.cnt
       /\ log' = r.ev

esh_rx(c) ==
  \/ RxBracketEscape(c)
  \/ RxEscape(c)
  \/ RxNul(c)
  \/ RxEsc(c)
  \/ RxNewline(c)
  \/ RxChar(c)

\* One call of esh_rx with a byte the terminal sends.
Next ==
  \/ \E c \in SeqBytes : RxBracketEscape(c)
  \/ \E c \in SeqBytes : RxEscape(c)
  \/ \E c \in KeyBytes : RxNul(c)
  \/ \E c \in KeyBytes : RxEsc(c)
  \/ \E c \in KeyBytes : RxNewline(c)
  \/ \E c \in KeyBytes : RxChar(c)

Spec == Init /\ [][Next]_vars

\* ---------------------------------------------------------------- lines
\* The tokenizer on every line: any state esh_rx can be in when a newline
\* arrives with no escape flag set.  Bytes below cnt were typed (never NUL),
\* bytes from cnt on are left over from earlier lines, buffer[ESH_BUFFER_LEN]
\* is NUL, and cnt = ESH_BUFFER_LEN + 1 after an input overflow.
LineStates ==
  {b \in [1..(ESH_BUFFER_LEN + 1) -> TokBytes \cup {NUL}] :
     b[ESH_BUFFER_LEN + 1] = NUL}

InitTok ==
  /\ buffer \in LineStates
  /\ cnt \in 0..(ESH_BUFFER_LEN + 1)
  /\ \A k \in 1..ESH_BUFFER_LEN : k <= cnt => buffer[k] # NUL
  /\ argv \in {[k \in 1..ESH_ARGC_MAX |-> NULLP], [k \in 1..ESH_ARGC_MAX |-> 0]}
  /\ flags = 0
  /\ log = <<>>
  /\ last = "esh_init"
  /\ pcnt = cnt

NextTok == RxNewline(NEWLINE)

SpecTok == InitTok /\ [][NextTok]_vars

\* One line, from any state esh_rx can be in when a line starts (cnt = 0,
\* no flag set): buffer holds what earlier lines left and argv is as
\* esh_init left it or points at the tokens of an earlier line.  The line
\* ends with the newline that dispatches it.
StartStates ==
  {b \in [1..(ESH_BUFFER_LEN + 1) -> {NUL, SPACE, CH_O}] :
     b[ESH_BUFFER_LEN + 1] = NUL}

InitLine ==
  /\ buffer \in StartStates
  /\ cnt = 0
  /\ argv \in {[k \in 1..ESH_ARGC_MAX |-> NULLP],
               [k \in 1..ESH_ARGC_MAX |-> 2 * (k - 1)]}
  /\ flags = 0
  /\ log = <<>>
  /\ last = "esh_init"
  /\ pcnt = 0

\* The line has not been dispatched yet.
LineOpen == last # "RxNewline"

\* Within one line the terminal may send any of its bytes at any time.
NextLine ==
  \/ LineOpen /\ \E c \in SeqBytes : RxBracketEscape(c)
  \/ LineOpen /\ \E c \in SeqBytes : RxEscape(c)
  \/ LineOpen /\ \E c \in SeqBytes : RxNul(c)
  \/ LineOpen /\ \E c \in SeqBytes : RxEsc(c)
  \/ LineOpen /\ \E c \in SeqBytes : RxNewline(c)
  \/ LineOpen /\ \E c \in SeqBytes : RxChar(c)

SpecLine == InitLine /\ [][NextLine]_vars

\* The line of the tokenizer's own example (esh.c 173-174), in a build whose
\* buffer holds it: the line, GIT_STALE bytes left by earlier lines, and the
\* last byte of buffer.
GIT_STALE == 3
Tok_git == <<103, 105, 116>>
Tok_config == <<99, 111, 110, 102, 105, 103>>
Tok_user_name == <<117, 115, 101, 114, 46, 110, 97, 109, 101>>
Tok_My_Name == <<77, 121, 32, 78, 97, 109, 101>>
GitLine ==
  Tok_git \o <<SPACE, SPACE, SPACE>> \o Tok_config \o <<SPACE>>
    \o Tok_user_name \o <<SPACE, DQUOTE>> \o Tok_My_Name \o <<DQUOTE>>

InitGit ==
  /\ \E stale \in [1..GIT_STALE -> TokBytes \cup {NUL}] :
       buffer = GitLine \o stale \o <<NUL>>
  /\ cnt = Len(GitLine)
  /\ argv \in {[k \in 1..ESH_ARGC_MAX |-> NULLP], [k \in 1..ESH_ARGC_MAX |-> 0]}
  /\ flags = 0
  /\ log = <<>>
  /\ last = "esh_init"
  /\ pcnt = cnt

NextGit == RxNewline(NEWLINE)

SpecGit == InitGit /\ [][NextGit]_vars

\* esh_rx called once for each byte of bytes, none of them 0, ESC or '\n',
\* with no escape flag set: handle_char on each, in order.
RECURSIVE FeedLine(_, _, _)
FeedLine(buf, n, bytes) ==
  IF bytes = <<>> THEN [buffer |-> buf, cnt |-> n]
  ELSE LET r == handle_char(buf, n, Head(bytes)) IN
       FeedLine(r.buffer, r.cnt, Tail(bytes))

\* ---------------------------------------------------------------- reading a call
\* The effects of kind t in a log, by position.
EvIdx(l, t) == {k \in 1..Len(l) : l[k].t = t}
CountEv(l, t) == Cardinality(EvIdx(l, t))
TheEv(l, t) == l[CHOOSE k \in EvIdx(l, t) : TRUE]
Min(a, b) == IF a < b THEN a ELSE b

\* ---------------------------------------------------------------- tokens of a line
\* The line handed to the tokenizer: buffer[0..cnt).
Line(buf, n) == [k \in 1..n |-> buf[k]]

\* The quote character in force before position k of the line (0: none).
RECURSIVE QuoteBefore(_, _)
QuoteBefore(line, k) ==
  IF k = 1 THEN 0
  ELSE LET q == QuoteBefore(line, k - 1)
           c == line[k - 1]
       IN  IF q # 0 THEN (IF c = q THEN 0 ELSE q)
           ELSE IF c = SQUOTE \/ c = DQUOTE THEN c ELSE 0

\* Position k is whitespace outside quotes: it separates tokens.
IsSep(line, k) == QuoteBefore(line, k) = 0 /\ isspace(line[k])

\* Position k is a quote delimiter: it opens or closes quoting.
IsDelim(line, k) ==
  LET q == QuoteBefore(line, k) IN
  IF q # 0 THEN line[k] = q ELSE line[k] = SQUOTE \/ line[k] = DQUOTE

\* The positions where a token (a maximal run of non-separators) starts.
TokenStarts(line) ==
  {k \in 1..Len(line) : ~IsSep(line, k) /\ (k = 1 \/ IsSep(line, k - 1))}
NumTokens(line) == Cardinality(TokenStarts(line))
KthStart(line, j) ==
  CHOOSE s \in TokenStarts(line) :
    Cardinality({x \in TokenStarts(line) : x < s}) = j - 1

\* The token that starts at position k with its quote delimiters removed,
\* as a C string (read up to the first NUL).
RECURSIVE TokenText(_, _)
TokenText(line, k) ==
  IF k > Len(line) THEN <<>>
  ELSE IF IsSep(line, k) THEN <<>>
  ELSE IF IsDelim(line, k) THEN TokenText(line, k + 1)
  ELSE IF line[k] = NUL THEN <<>>
  ELSE <<line[k]>> \o TokenText(line, k + 1)

\* The write position when position s is read: one C index per byte before
\* s that is not a quote delimiter.
DestAt(line, s) == Cardinality({p \in 1..(s - 1) : ~IsDelim(line, p)})

\* ---------------------------------------------------------------- claims
\* C1: for every line tokenized and every k < min(argc, ESH_ARGC_MAX),
\* argv[k] is the write position at which the k-th token starts in the
\* rewritten buffer, and the NUL-terminated string read at argv[k] after the
\* pass is the k-th token with its quote delimiters removed.  Stated for the
\* lines without input overflow (cnt <= ESH_BUFFER_LEN), where every store of
\* the pass stays inside buffer.
C1_ArgvIsTokenStart ==
  [][(RxNewline(NEWLINE) /\ cnt <= ESH_BUFFER_LEN) =>
       LET line == Line(buffer, cnt) IN
       \A j \in 1..Min(NumTokens(line), ESH_ARGC_MAX) :
         /\ argv'[j] = DestAt(line, KthStart(line, j))
         /\ ArgStr(buffer', argv', j - 1) = TokenText(line, KthStart(line, j))]_vars

\* C2: make_arg_array returns the true number of tokens of buffer[0..cnt),
\* not capped at ESH_ARGC_MAX; it stores the starts of tokens
\* 0..min(argc, ESH_ARGC_MAX)-1 in that order, and no store goes to an argv
\* slot at index >= ESH_ARGC_MAX.
C2_ArgcIsTrueCount ==
  [][RxNewline(NEWLINE) =>
       LET line == Line(buffer, cnt)
           stores == EvIdx(log', "argv")
       IN  /\ CountEv(log', "make_arg_array") = 1
           /\ TheEv(log', "make_arg_array").n = NumTokens(line)
           /\ \A k \in stores : log'[k].n < ESH_ARGC_MAX
           /\ {log'[k].n : k \in stores}
                = 0..(Min(NumTokens(line), ESH_ARGC_MAX) - 1)
           /\ Cardinality(stores) = Min(NumTokens(line), ESH_ARGC_MAX)]_vars

\* A line with more tokens than ESH_ARGC_MAX was tokenized without input
\* overflow.
C2_Witness ==
  /\ last = "RxNewline"
  /\ pcnt <= ESH_BUFFER_LEN
  /\ CountEv(log, "make_arg_array") = 1
  /\ TheEv(log, "make_arg_array").n > ESH_ARGC_MAX
  /\ CountEv(log, "argv") = ESH_ARGC_MAX

\* A line with more tokens than ESH_ARGC_MAX was tokenized without input
\* overflow and reported to the overflow handler.
C3_Witness ==
  /\ last = "RxNewline"
  /\ pcnt <= ESH_BUFFER_LEN
  /\ CountEv(log, "make_arg_array") = 1
  /\ TheEv(log, "make_arg_array").n > ESH_ARGC_MAX
  /\ CountEv(log, "overflow") = 1

\* C3: a newline processed with no escape flag set has exactly one of three
\* outcomes, chosen by the tokenizer's argc: argc > ESH_ARGC_MAX calls the
\* overflow handler once with the rewritten buffer and never the callback;
\* 0 < argc <= ESH_ARGC_MAX calls the callback once with (argc, argv) and
\* never the overflow handler; argc = 0 calls neither.
C3_DispatchByArgc ==
  last = "RxNewline" =>
    /\ CountEv(log, "make_arg_array") = 1
    /\ LET n == TheEv(log, "make_arg_array").n IN
       /\ n > ESH_ARGC_MAX =>
            /\ CountEv(log, "overflow") = 1
            /\ TheEv(log, "overflow").s = buffer
            /\ CountEv(log, "callback") = 0
       /\ (0 < n /\ n <= ESH_ARGC_MAX) =>
            /\ CountEv(log, "callback") = 1
            /\ TheEv(log, "callback").n = n
            /\ TheEv(log, "callback").s = argv
            /\ CountEv(log, "overflow") = 0
       /\ n = 0 =>
            /\ CountEv(log, "callback") = 0
            /\ CountEv(log, "overflow") = 0

\* C4: on '\n' with no escape flag set the newline is echoed first, then the
\* line is tokenized, then dispatched, then cnt is 0 and the prompt is the
\* last thing printed; this holds whatever the line was (empty, too many
\* arguments, input overflow already reported).
C4_NewlineOrder ==
  last = "RxNewline" =>
    LET n == Len(log)
        k == CHOOSE x \in EvIdx(log, "make_arg_array") : TRUE
        np == Len(ESH_PROMPT)
    IN  /\ CountEv(log, "make_arg_array") = 1
        /\ log[1] = Ev("echo", <<NEWLINE>>, 0, <<>>)
        /\ CountEv(log, "echo") = 1
        /\ \A x \in 2..(k - 1) : log[x].t \in {"argv", "oob"}
        /\ \A x \in (k + 1)..(n - np) : log[x].t \in {"callback", "overflow", "msg"}
        /\ n - np >= k
        /\ \A x \in 1..np : log[n - np + x] = Ev("prompt", <<ESH_PROMPT[x]>>, 0, <<>>)
        /\ cnt = 0

\* A newline ended a line on which an input overflow had been reported.
C4_Witness ==
  /\ last = "RxNewline"
  /\ pcnt = ESH_BUFFER_LEN + 1
  /\ cnt = 0
  /\ CountEv(log, "prompt") = Len(ESH_PROMPT)

\* c reaches handle_char: neither flag is set and c is not 0, ESC or '\n'.
ToHandleChar(c) == Plain /\ c \notin {NUL, ESC, NEWLINE}

\* C5: from cnt = ESH_BUFFER_LEN, a byte that reaches handle_char and is not
\* a backspace gives exactly one overflow-handler call, with a buffer whose
\* first ESH_BUFFER_LEN bytes are the accepted input and whose byte
\* ESH_BUFFER_LEN is NUL; cnt becomes ESH_BUFFER_LEN + 1 and the byte is
\* neither stored nor echoed.
C5_OverflowReport ==
  [][\A c \in Bytes :
       (ToHandleChar(c) /\ ~is_bksp(c) /\ cnt = ESH_BUFFER_LEN /\ esh_rx(c)) =>
         /\ CountEv(log', "overflow") = 1
         /\ TheEv(log', "overflow").s = buffer'
         /\ \A k \in 1..ESH_BUFFER_LEN : buffer'[k] = buffer[k]
         /\ buffer'[ESH_BUFFER_LEN + 1] = NUL
         /\ cnt' = ESH_BUFFER_LEN + 1
         /\ CountEv(log', "echo") = 0]_vars

\* The byte after a full line was refused.
C5_Witness ==
  /\ last = "RxChar"
  /\ pcnt = ESH_BUFFER_LEN
  /\ cnt = ESH_BUFFER_LEN + 1
  /\ CountEv(log, "overflow") = 1

\* C6: once cnt = ESH_BUFFER_LEN + 1, every byte that reaches handle_char,
\* backspace included, leaves cnt and every byte of buffer as they are,
\* echoes nothing and prints no erase sequence.
C6_OverflowIdempotent ==
  [][\A c \in Bytes :
       (ToHandleChar(c) /\ cnt = ESH_BUFFER_LEN + 1 /\ esh_rx(c)) =>
         /\ cnt' = ESH_BUFFER_LEN + 1
         /\ buffer' = buffer
         /\ CountEv(log', "echo") = 0
         /\ CountEv(log', "erase") = 0]_vars

\* A byte reached handle_char in the overflow state.
C6_Witness ==
  /\ last = "RxChar"
  /\ pcnt = ESH_BUFFER_LEN + 1
  /\ cnt = ESH_BUFFER_LEN + 1

\* C7: a backspace (8 or 127) that reaches handle_char with
\* 0 < cnt <= ESH_BUFFER_LEN prints exactly the 3-byte erase sequence,
\* decrements cnt by 1 and calls no overflow handler; with cnt = 0 it
\* changes nothing and prints nothing.
C7_Backspace ==
  [][\A c \in {BKSP, DEL} :
       (Plain /\ cnt <= ESH_BUFFER_LEN /\ esh_rx(c)) =>
         IF cnt > 0
         THEN /\ log' = <<Ev("erase", <<8, 32, 8>>, 0, <<>>)>>
              /\ cnt' = cnt - 1
         ELSE /\ log' = <<>>
              /\ cnt' = 0
              /\ UNCHANGED <<buffer, argv, flags>>]_vars

\* The last byte of a full line was erased.
C7_Witness ==
  /\ last = "RxChar"
  /\ pcnt = ESH_BUFFER_LEN
  /\ cnt = ESH_BUFFER_LEN - 1
  /\ log = <<Ev("erase", <<8, 32, 8>>, 0, <<>>)>>

\* The effect C8 describes: c is echoed, stored at buffer[cnt], and cnt
\* grows by 1.
Appended(c) ==
  /\ log' = <<Ev("echo", <<c>>, 0, <<>>)>>
  /\ buffer' = [buffer EXCEPT ![cnt + 1] = c]
  /\ cnt' = cnt + 1

\* C8 as stated: with neither flag set, every byte that is not 0x1B, '\n',
\* a backspace or overflow-triggering (cnt < ESH_BUFFER_LEN) is echoed and
\* appended at buffer[cnt], and cnt grows by 1.
C8_EveryByteAppended ==
  [][\A c \in Bytes :
       (Plain /\ c \notin {ESC, NEWLINE} /\ ~is_bksp(c)
          /\ cnt < ESH_BUFFER_LEN /\ esh_rx(c)) => Appended(c)]_vars

\* C8 amended: the same for every byte that is also not NUL (0).
C8_NonNulByteAppended ==
  [][\A c \in Bytes :
       (Plain /\ c \notin {NUL, ESC, NEWLINE} /\ ~is_bksp(c)
          /\ cnt < ESH_BUFFER_LEN /\ esh_rx(c)) => Appended(c)]_vars

\* A byte was echoed and stored as the last byte of the line.
C8_Witness ==
  /\ last = "RxChar"
  /\ cnt = pcnt + 1
  /\ Len(log) = 1
  /\ log[1].t = "echo"
  /\ buffer[cnt] = log[1].s[1]

\* C9: a byte consumed by the escape filter (the 0x1B that opens a sequence,
\* and every byte received while a flag is set, '\n' and backspace included)
\* leaves buffer, cnt and argv unchanged, prints nothing and calls neither
\* the callback nor the overflow handler.
C9_EscapeConsumes ==
  [][\/ (UNCHANGED <<buffer, cnt, argv>> /\ log' = <<>>)
     \/ \A c \in Bytes : ~((~Plain \/ c = ESC) /\ esh_rx(c))]_vars

\* A byte ended an escape sequence while a line and its arguments were held.
C9_Witness ==
  /\ last \in {"RxEscape", "RxBracketEscape"}
  /\ flags = 0
  /\ cnt > 0
  /\ argv[1] # NULLP

\* The automaton of C10: A = 0, B = IN_ESCAPE, C = both flags.
FlagsAfter(f, c) ==
  IF f = 0 THEN (IF c = 27 THEN 1 ELSE 0)
  ELSE IF f = 1 THEN (IF c = 91 \/ c = 79 THEN 3 ELSE 0)
  ELSE IF (c >= 65 /\ c <= 90) \/ (c >= 97 /\ c <= 122) THEN 0 ELSE 3

\* C10: flags follows the 3-state automaton for every byte: from A only 0x1B
\* leads to B; from B, '[' or 'O' leads to C and any other byte to A; from
\* C, an alphabetic byte leads to A and any other byte stays in C.
C10_FlagsAutomaton ==
  [][\A c \in Bytes :
       (flags \in {0, 1, 3} /\ flags' = FlagsAfter(flags, c)) \/ ~esh_rx(c)]_vars

\* An alphabetic byte ended a bracket sequence.
C10_Witness ==
  /\ last = "RxBracketEscape"
  /\ flags = 0

\* C11 as stated: every argv entry stored by the most recent tokenization
\* points within the first ESH_BUFFER_LEN bytes of buffer (C index in
\* 0..ESH_BUFFER_LEN - 1), also when the line was tokenized with
\* cnt = ESH_BUFFER_LEN + 1 after an input overflow.
C11_ArgvWithinLine ==
  last = "RxNewline" =>
    \A k \in EvIdx(log, "argv") : log[k].s[1] \in 0..(ESH_BUFFER_LEN - 1)

\* C12: in every state reachable from esh_init, cnt is in
\* 0..ESH_BUFFER_LEN + 1 and buffer[ESH_BUFFER_LEN] is NUL.
C12_CntRangeAndTerminator ==
  /\ cnt \in 0..(ESH_BUFFER_LEN + 1)
  /\ Len(buffer) = ESH_BUFFER_LEN + 1
  /\ buffer[ESH_BUFFER_LEN + 1] = NUL

\* A full line of non-NUL bytes is held, one byte short of the terminator.
C12_Witness ==
  /\ last = "RxChar"
  /\ cnt = ESH_BUFFER_LEN
  /\ \A k \in 1..ESH_BUFFER_LEN : buffer[k] # NUL
  /\ buffer[ESH_BUFFER_LEN + 1] = NUL

\* C15 as stated: every buffer index read or written during a call of
\* esh_rx lies in 0..ESH_BUFFER_LEN: the index handle_char stores at, the
\* indices the tokenizer's loop reads (i < cnt), and every store of the
\* tokenizer, its final buffer[dest] = 0 included, whatever cnt was
\* (0..ESH_BUFFER_LEN + 1).
C15_IndicesInBounds ==
  /\ (last = "RxChar" /\ cnt = pcnt + 1) => pcnt \in 0..ESH_BUFFER_LEN
  /\ last = "RxNewline" =>
       /\ \A i \in 0..(pcnt - 1) : i \in 0..ESH_BUFFER_LEN
       /\ CountEv(log, "oob") = 0

\* C18: in every state reachable from esh_init, IN_BRACKET_ESCAPE is set
\* only if IN_ESCAPE is set too (flags = 0x02 alone is unreachable).
C18_BracketImpliesEscape ==
  HasFlag(flags, IN_BRACKET_ESCAPE) => HasFlag(flags, IN_ESCAPE)

\* '[' or 'O' after ESC set IN_BRACKET_ESCAPE.
C18_Witness ==
  /\ last = "RxEscape"
  /\ HasFlag(flags, IN_BRACKET_ESCAPE)
  /\ HasFlag(flags, IN_ESCAPE)

\* C17: at every iteration i of the tokenizer's pass the write cursor dest
\* is <= i and the byte read at i is still the byte of the line (no byte is
\* overwritten before it is read); the iteration advances dest by 0 when the
\* byte is a quote delimiter that opens or closes quoting and by 1 otherwise.
C17_DestBehindSource ==
  [][RxNewline(NEWLINE) =>
       LET line == Line(buffer, cnt) IN
       \A i \in 0..(cnt - 1) :
         LET s == TokLoop(TokInit(buffer, argv), 0, i)
             t == TokStep(s, i)
         IN  /\ s.dest <= i
             /\ s.buffer[i + 1] = line[i + 1]
             /\ t.dest - s.dest = (IF IsDelim(line, i + 1) THEN 0 ELSE 1)]_vars

\* A line was tokenized in which quote delimiters were dropped before a token
\* started: the byte before that token's argv position is not the NUL its
\* separator would have left there with dest = i, so the write cursor was
\* behind the read index.
C17_Witness ==
  /\ last = "RxNewline"
  /\ pcnt <= ESH_BUFFER_LEN
  /\ \E k \in EvIdx(log, "argv") :
       /\ log[k].s[1] > 0
       /\ buffer[log[k].s[1]] # NUL

\* The rewritten line as C14 states it (one NUL between consecutive tokens)
\* and as the tokenizer's example shows it (esh.c 174: git###config#...).
GitOneNul ==
  Tok_git \o <<NUL>> \o Tok_config \o <<NUL>> \o Tok_user_name \o <<NUL>>
    \o Tok_My_Name \o <<NUL>>
GitNulPerSpace ==
  Tok_git \o <<NUL, NUL, NUL>> \o Tok_config \o <<NUL>> \o Tok_user_name
    \o <<NUL>> \o Tok_My_Name \o <<NUL>>

\* C14 as stated: tokenizing GitLine (cnt = its length) yields argc = 4 and
\* the rewritten buffer git\0config\0user.name\0My Name\0, exactly one NUL
\* between consecutive tokens, and the last byte of buffer is NUL.
C14_OneNulBetweenTokens ==
  (last = "RxNewline" /\ pcnt = Len(GitLine)) =>
    /\ TheEv(log, "make_arg_array").n = 4
    /\ SubSeq(buffer, 1, Len(GitOneNul)) = GitOneNul
    /\ buffer[Len(buffer)] = NUL

\* C14 amended: tokenizing GitLine yields argc = 4 and the rewritten buffer
\* git\0\0\0config\0user.name\0My Name\0, one NUL for every whitespace byte
\* outside quotes (three after git), and the last byte of buffer is NUL.
C14_OneNulPerSpace ==
  (last = "RxNewline" /\ pcnt = Len(GitLine)) =>
    /\ CountEv(log, "make_arg_array") = 1
    /\ TheEv(log, "make_arg_array").n = 4
    /\ SubSeq(buffer, 1, Len(GitNulPerSpace)) = GitNulPerSpace
    /\ buffer[Len(buffer)] = NUL

\* GitLine was tokenized: four tokens counted, the second one starting after
\* three NULs.
C14_Witness ==
  /\ last = "RxNewline"
  /\ pcnt = Len(GitLine)
  /\ TheEv(log, "make_arg_array").n = 4
  /\ SubSeq(buffer, 4, 7) = <<NUL, NUL, NUL, 99>>

\* The dispatch of a line as its receiver sees it: the tokenizer's argc, and
\* for each handler call the handler and the strings read through argv.
IsDispatchEv(e) == e.t \in {"callback", "overflow"}
Outcome(l) ==
  LET d == SelectSeq(l, IsDispatchEv) IN
  [argc |-> TheEv(l, "make_arg_array").n,
   calls |-> [k \in 1..Len(d) |-> [t |-> d[k].t, a |-> d[k].a]]]

\* Bytes that, typed from cnt = 0, give the line held in (buf, n): its
\* accepted bytes and, after an input overflow, one byte that was refused.
TypedLine(buf, n) ==
  Line(buf, Min(n, ESH_BUFFER_LEN))
    \o (IF n > ESH_BUFFER_LEN THEN <<CH_O>> ELSE <<>>)

C16_DispatchIgnoresHistory ==
  [][(RxNewline(NEWLINE) /\ cnt <= ESH_BUFFER_LEN) =>
       LET first == FeedLine([k \in 1..(ESH_BUFFER_LEN + 1) |-> NUL], 0,
                             TypedLine(buffer, cnt))
           none == [k \in 1..ESH_ARGC_MAX |-> NULLP]
       IN  Outcome(execute_command(first.buffer, first.cnt, none, FALSE).ev)
             = Outcome(log')]_vars

====
